---- MODULE Spec2Model ----
(***************************************************************************)
(* Model of src/train.py: Config.from_json, Trainer.train/save/load and    *)
(* AdversarialTrainer.train/save/load.                                     *)
(*                                                                         *)
(* The external collaborators (torch, tqdm, the models, the optimizers)    *)
(* are abstracted: a tensor is a small sequence of naturals, a model       *)
(* forward pass is the table gen_logits, a file write is an entry in a     *)
(* log of writes.  What Python itself decides is modelled exactly: which   *)
(* attributes an object has, which call raises, in which order statements  *)
(* run.  A raised exception ends the run in pc = "error"; the *_where      *)
(* variable names the statement that raised.                               *)
(*                                                                         *)
(* train is modelled with data_parallel = False (its default).  cfg values *)
(* are naturals; lr is counted in units of 1e-5 and warmup in tenths.      *)
(* save_steps ranges over 1..MaxSaveSteps (global_step % 0 is not          *)
(* modelled).  The data iterator is a re-iterable list of batches, so      *)
(* every epoch yields the same batches.                                    *)
(***************************************************************************)
EXTENDS Integers, Sequences, FiniteSets, TLC

\* ---------------------------------------------------------------- bounds
MaxEpochs == 2
MaxBatches == 3
MaxSaveSteps == 3
MaxTotalSteps == 3
MaxVal == 2
VocabSize == 2
MaxLogit == 1
NPred == 1

\* ---------------------------------------------------------------- Config
Fields == {"seed", "batch_size", "lr", "n_epochs", "warmup", "save_steps", "total_steps"}

Defaults ==
  [seed |-> 3431, batch_size |-> 8, lr |-> 5, n_epochs |-> 10,
   warmup |-> 1, save_steps |-> 100, total_steps |-> 100000]

\* The keys a JSON file of the model may hold: the fields and one foreign key.
JsonKeys == Fields \cup {"extra"}

JsonObjects == UNION {[K -> 1..MaxVal] : K \in SUBSET JsonKeys}

\* cls(**d): a keyword that is no field raises TypeError; a field that is
\* not given takes its default.
FromJsonRaises_IgnoreExtra(d) == FALSE

FromJsonRaises(d) == ~(DOMAIN d \subseteq Fields)

FromJsonValue(d) ==
  [f \in Fields |-> IF f \in DOMAIN d THEN d[f] ELSE Defaults[f]]

\* ---------------------------------------------------------------- objects
TrainerAttrs == {"cfg", "model", "data_iter", "optimizer", "save_dir", "device"}

AdvCtorAttrs ==
  {"cfg", "discriminator", "generator", "data_iter", "d_optimizer",
   "g_optimizer", "save_dir", "device", "cross_ent", "sent_cross_ent"}

\* Attributes train/save/load read that __init__ does not set; a caller can
\* only get past them by attaching them to the object before train().
AdvForeignAttrs == {"writer", "model"}

Vocab == 0..(VocabSize - 1)
Positions == 1..NPred

\* A batch: <<input_ids, segment_ids, input_mask, masked_ids, masked_pos,
\* masked_weights, is_next>>.  Python's batch[3] is index 4 here.
MkBatch(masked_ids) ==
  << <<11>>, <<12>>, <<13>>, masked_ids, <<15>>, <<16>>, <<17>> >>

MASKED_IDS == 4

BackbonePath == <<"backbone.pt">>
StepPath(i) == <<"model_steps_", i, ".pt">>

\* torch.argmax over the vocabulary axis: the index of the first maximal value.
RECURSIVE ArgMaxFrom(_, _, _)
ArgMaxFrom(l, k, best) ==
  IF k \notin DOMAIN l THEN best
  ELSE ArgMaxFrom(l, k + 1, IF l[k] > l[best] THEN k ELSE best)

ArgMax(l) == ArgMaxFrom(l, 1, 0)

VARIABLES
  file, cfg, load_status,
  attrs, model_file, data_iter, gen_logits,
  a_pc, a_where, a_e, a_pos, a_i, a_i_bound, a_global_step,
  a_batch, a_loss_lm, a_events, a_saves, a_written, a_reports, a_early,
  t_pc, t_where, t_e, t_i_bound, t_global_step, t_saves, t_written

cfgVars == <<file, cfg, load_status>>
inputVars == <<attrs, model_file, data_iter, gen_logits>>
advVars ==
  <<a_pc, a_where, a_e, a_pos, a_i, a_i_bound, a_global_step,
    a_batch, a_loss_lm, a_events, a_saves, a_written, a_reports, a_early>>
trainerVars == <<t_pc, t_where, t_e, t_i_bound, t_global_step, t_saves, t_written>>
vars == <<cfgVars, inputVars, advVars, trainerVars>>

\* ---------------------------------------------------------------- Init
RunInit ==
  /\ a_pc = "start" /\ a_where = "none" /\ a_e = 0 /\ a_pos = 0
  /\ a_i = 0 /\ a_i_bound = FALSE /\ a_global_step = 0
  /\ a_batch = <<>> /\ a_loss_lm = <<>> /\ a_events = <<>>
  /\ a_saves = <<>> /\ a_written = <<>> /\ a_reports = <<>> /\ a_early = FALSE
  /\ t_pc = "start" /\ t_where = "none" /\ t_e = 0 /\ t_i_bound = FALSE
  /\ t_global_step = 0 /\ t_saves = <<>> /\ t_written = <<>>

ZeroLogits == [p \in Positions |-> [v \in Vocab |-> 0]]
ZeroIds == [p \in Positions |-> 0]

\* Both trainers are constructed over the same cfg and the same data.
Init ==
  /\ file = <<>>
  /\ load_status = "constructed"
  /\ cfg \in {[Defaults EXCEPT !.n_epochs = n, !.save_steps = s, !.total_steps = t] :
                n \in 0..MaxEpochs, s \in 1..MaxSaveSteps, t \in 0..MaxTotalSteps}
  /\ attrs \in {AdvCtorAttrs \cup X : X \in SUBSET AdvForeignAttrs}
  /\ model_file \in BOOLEAN
  /\ data_iter \in {[k \in 1..n |-> MkBatch(ZeroIds)] : n \in 0..MaxBatches}
  /\ gen_logits = ZeroLogits
  /\ RunInit

\* One epoch over one batch; the batch's masked ids and the generator's
\* logits range over all values.
InitLabel ==
  /\ file = <<>>
  /\ load_status = "constructed"
  /\ cfg \in {[Defaults EXCEPT !.n_epochs = 1, !.save_steps = s, !.total_steps = 0] :
                s \in 1..MaxSaveSteps}
  /\ attrs = AdvCtorAttrs \cup AdvForeignAttrs
  /\ model_file = FALSE
  /\ data_iter \in {<<MkBatch(ids)>> : ids \in [Positions -> Vocab]}
  /\ gen_logits \in [Positions -> [Vocab -> 0..MaxLogit]]
  /\ RunInit

InitConfig ==
  /\ file \in JsonObjects
  /\ load_status = "pending"
  /\ cfg = Defaults
  /\ attrs = AdvCtorAttrs
  /\ model_file = FALSE
  /\ data_iter = <<>>
  /\ gen_logits = ZeroLogits
  /\ RunInit

\* ---------------------------------------------------------------- Config.from_json
FromJson ==
  /\ load_status = "pending"
  /\ IF FromJsonRaises(file)
       THEN load_status' = "TypeError" /\ cfg' = cfg
       ELSE load_status' = "ok" /\ cfg' = FromJsonValue(file)
  /\ UNCHANGED <<file, inputVars, advVars, trainerVars>>

\* ---------------------------------------------------------------- AdversarialTrainer
\* AdversarialTrainer.save(i): self.model is read before anything is written.
\* a_saves logs the calls, a_written the files a call wrote and the
\* attribute each was serialised from.
AdvSave(i, next_pc) ==
  /\ a_saves' = Append(a_saves, i)
  /\ IF "model" \in attrs
       THEN /\ a_written' = a_written \o
                 << [path |-> BackbonePath, obj |-> "model"],
                    [path |-> StepPath(i), obj |-> "model"] >>
            /\ a_pc' = next_pc
            /\ a_where' = a_where
       ELSE /\ a_written' = a_written
            /\ a_pc' = "error"
            /\ a_where' = "save"

\* train up to the epoch loop: load(model_file) reads self.model when a
\* file is given; then global_step = 0.
A_Load ==
  /\ load_status \in {"constructed", "ok"}
  /\ a_pc = "start"
  /\ IF model_file /\ "model" \notin attrs
       THEN a_pc' = "error" /\ a_where' = "load"
       ELSE a_pc' = "epoch" /\ a_where' = a_where
  /\ a_global_step' = 0
  /\ UNCHANGED <<a_e, a_pos, a_i, a_i_bound, a_batch, a_loss_lm, a_events,
                 a_saves, a_written, a_reports, a_early>>
  /\ UNCHANGED <<cfgVars, inputVars, trainerVars>>

\* for e in range(n_epochs): loss_sum = 0; a fresh iterator over data_iter.
A_EpochBegin_ResetStep ==
  /\ a_pc = "epoch"
  /\ a_e < cfg.n_epochs
  /\ a_pos' = 0
  /\ a_pc' = "iter"
  /\ a_global_step' = 0
  /\ UNCHANGED <<a_where, a_e, a_i, a_i_bound, a_batch, a_loss_lm,
                 a_events, a_saves, a_written, a_reports, a_early>>
  /\ UNCHANGED <<cfgVars, inputVars, trainerVars>>

A_EpochBegin ==
  /\ a_pc = "epoch"
  /\ a_e < cfg.n_epochs
  /\ a_pos' = 0
  /\ a_pc' = "iter"
  /\ UNCHANGED <<a_where, a_e, a_i, a_i_bound, a_global_step, a_batch, a_loss_lm,
                 a_events, a_saves, a_written, a_reports, a_early>>
  /\ UNCHANGED <<cfgVars, inputVars, trainerVars>>

\* for i, batch in enumerate(iter_bar): binds i and a fresh list for batch.
A_NextBatch ==
  /\ a_pc = "iter"
  /\ a_pos < Len(data_iter)
  /\ a_i' = a_pos
  /\ a_i_bound' = TRUE
  /\ a_batch' = data_iter[a_pos + 1]
  /\ a_pos' = a_pos + 1
  /\ a_events' = <<>>
  /\ a_pc' = "gen"
  /\ UNCHANGED <<a_where, a_e, a_global_step, a_loss_lm, a_saves, a_written,
                 a_reports, a_early>>
  /\ UNCHANGED <<cfgVars, inputVars, trainerVars>>

\* Generator sub-step and global_step += 1.  The arguments of generator_loss
\* include self.writer, which raises AttributeError when it was never attached.
A_GeneratorStep ==
  /\ a_pc = "gen"
  /\ IF "writer" \notin attrs
       THEN /\ a_events' = <<"g_zero_grad">>
            /\ a_pc' = "error"
            /\ a_where' = "generator_loss"
            /\ UNCHANGED <<a_loss_lm, a_global_step>>
       ELSE /\ a_events' = <<"g_zero_grad", "generator_loss", "g_backward", "g_step">>
            /\ a_loss_lm' = gen_logits
            /\ a_global_step' = a_global_step + 1
            /\ a_pc' = "disc"
            /\ a_where' = a_where
  /\ UNCHANGED <<a_e, a_pos, a_i, a_i_bound, a_batch, a_saves, a_written,
                 a_reports, a_early>>
  /\ UNCHANGED <<cfgVars, inputVars, trainerVars>>

\* is_replaced = (argmax(loss_lm, axis=2) == masked_ids).long()
IsReplaced_Inverted(logits, masked_ids) ==
  [p \in DOMAIN masked_ids |-> IF ArgMax(logits[p]) = masked_ids[p] THEN 0 ELSE 1]

IsReplaced(logits, masked_ids) ==
  [p \in DOMAIN masked_ids |-> IF ArgMax(logits[p]) = masked_ids[p] THEN 1 ELSE 0]

\* Discriminator sub-step: the label replaces batch[3]; discriminator_loss is
\* computed on the changed batch; d_optimizer.step() follows with no
\* d_loss.backward() in between.
A_DiscriminatorStep ==
  /\ a_pc = "disc"
  /\ a_batch' = [a_batch EXCEPT ![MASKED_IDS] = IsReplaced(a_loss_lm, a_batch[MASKED_IDS])]
  /\ a_events' = a_events \o <<"d_zero_grad", "discriminator_loss", "d_step">>
  /\ a_pc' = "save_check"
  /\ UNCHANGED <<a_where, a_e, a_pos, a_i, a_i_bound, a_global_step, a_loss_lm,
                 a_saves, a_written, a_reports, a_early>>
  /\ UNCHANGED <<cfgVars, inputVars, trainerVars>>

\* if global_step % save_steps == 0: self.save(global_step)
SaveDue_NextStep(step) == (step + 1) % cfg.save_steps = 0

SaveDue(step) == step % cfg.save_steps = 0

A_PeriodicSave ==
  /\ a_pc = "save_check"
  /\ IF SaveDue(a_global_step)
       THEN AdvSave(a_global_step, "term_check")
       ELSE a_pc' = "term_check" /\ UNCHANGED <<a_where, a_saves, a_written>>
  /\ UNCHANGED <<a_e, a_pos, a_i, a_i_bound, a_global_step, a_batch, a_loss_lm,
                 a_events, a_reports, a_early>>
  /\ UNCHANGED <<cfgVars, inputVars, trainerVars>>

\* if total_steps and total_steps < global_step: report, save, return
TotalStepsReached(step) == cfg.total_steps # 0 /\ cfg.total_steps < step

A_TotalStepsCheck ==
  /\ a_pc = "term_check"
  /\ IF TotalStepsReached(a_global_step)
       THEN /\ a_reports' = Append(a_reports, [epoch |-> a_e + 1, batches |-> a_i + 1])
            /\ a_early' = TRUE
            /\ AdvSave(a_global_step, "done")
       ELSE /\ a_pc' = "iter"
            /\ UNCHANGED <<a_where, a_saves, a_written, a_reports, a_early>>
  /\ UNCHANGED <<a_e, a_pos, a_i, a_i_bound, a_global_step, a_batch, a_loss_lm, a_events>>
  /\ UNCHANGED <<cfgVars, inputVars, trainerVars>>

\* The iterator is exhausted: the end-of-epoch report divides by i + 1, and
\* i is unbound when no batch was ever enumerated (UnboundLocalError).
A_EpochEnd ==
  /\ a_pc = "iter"
  /\ a_pos >= Len(data_iter)
  /\ IF a_i_bound
       THEN /\ a_reports' = Append(a_reports, [epoch |-> a_e + 1, batches |-> a_i + 1])
            /\ a_e' = a_e + 1
            /\ a_pos' = 0
            /\ a_pc' = "epoch"
            /\ a_where' = a_where
       ELSE /\ a_pc' = "error"
            /\ a_where' = "report"
            /\ UNCHANGED <<a_reports, a_e, a_pos>>
  /\ UNCHANGED <<a_i, a_i_bound, a_global_step, a_batch, a_loss_lm, a_events,
                 a_saves, a_written, a_early>>
  /\ UNCHANGED <<cfgVars, inputVars, trainerVars>>

\* After the last epoch: self.save(global_step).
A_FinalSave ==
  /\ a_pc = "epoch"
  /\ a_e >= cfg.n_epochs
  /\ AdvSave(a_global_step, "done")
  /\ UNCHANGED <<a_e, a_pos, a_i, a_i_bound, a_global_step, a_batch, a_loss_lm,
                 a_events, a_reports, a_early>>
  /\ UNCHANGED <<cfgVars, inputVars, trainerVars>>

NextAdv ==
  \/ A_Load
  \/ A_EpochBegin
  \/ A_NextBatch
  \/ A_GeneratorStep
  \/ A_DiscriminatorStep
  \/ A_PeriodicSave
  \/ A_TotalStepsCheck
  \/ A_EpochEnd
  \/ A_FinalSave

\* ---------------------------------------------------------------- Trainer
\* Trainer.save(i): self.model is set by __init__, both files are written.
TrainerSave(i, next_pc) ==
  /\ "model" \in TrainerAttrs
  /\ t_saves' = Append(t_saves, i)
  /\ t_written' = t_written \o
       << [path |-> BackbonePath, obj |-> "model"],
          [path |-> StepPath(i), obj |-> "model"] >>
  /\ t_pc' = next_pc

\* train up to the epoch loop; load reads self.model, which __init__ set.
T_Load ==
  /\ load_status \in {"constructed", "ok"}
  /\ t_pc = "start"
  /\ t_pc' = "epoch"
  /\ t_global_step' = 0
  /\ UNCHANGED <<t_where, t_e, t_i_bound, t_saves, t_written>>
  /\ UNCHANGED <<cfgVars, inputVars, advVars>>

T_EpochBegin ==
  /\ t_pc = "epoch"
  /\ t_e < cfg.n_epochs
  /\ t_pc' = "iter"
  /\ UNCHANGED <<t_where, t_e, t_i_bound, t_global_step, t_saves, t_written>>
  /\ UNCHANGED <<cfgVars, inputVars, advVars>>

\* The first batch of an epoch: i is bound, gradients are zeroed, and the
\* call discriminator_loss(model, batch, global_step, self.optimizer) raises
\* TypeError (cross_ent and sent_cross_ent are required and not passed).
\* Nothing after that line of the loop body is ever reached.
T_Batch ==
  /\ t_pc = "iter"
  /\ Len(data_iter) > 0
  /\ t_i_bound' = TRUE
  /\ t_pc' = "error"
  /\ t_where' = "discriminator_loss"
  /\ UNCHANGED <<t_e, t_global_step, t_saves, t_written>>
  /\ UNCHANGED <<cfgVars, inputVars, advVars>>

\* The iterator yielded nothing: the report reads the unbound i.
T_EpochEnd ==
  /\ t_pc = "iter"
  /\ Len(data_iter) = 0
  /\ IF t_i_bound
       THEN t_e' = t_e + 1 /\ t_pc' = "epoch" /\ t_where' = t_where
       ELSE t_e' = t_e /\ t_pc' = "error" /\ t_where' = "report"
  /\ UNCHANGED <<t_i_bound, t_global_step, t_saves, t_written>>
  /\ UNCHANGED <<cfgVars, inputVars, advVars>>

T_FinalSave ==
  /\ t_pc = "epoch"
  /\ t_e >= cfg.n_epochs
  /\ TrainerSave(t_global_step, "done")
  /\ UNCHANGED <<t_where, t_e, t_i_bound, t_global_step>>
  /\ UNCHANGED <<cfgVars, inputVars, advVars>>

NextTrainer ==
  \/ T_Load
  \/ T_EpochBegin
  \/ T_Batch
  \/ T_EpochEnd
  \/ T_FinalSave

NextConfig == FromJson

Next == NextAdv \/ NextTrainer

Spec == Init /\ [][Next]_vars
SpecLabel == InitLabel /\ [][NextAdv]_vars
SpecConfig == InitConfig /\ [][NextConfig]_vars

\* ---------------------------------------------------------------- properties
InSeq(x, s) == \E k \in 1..Len(s) : s[k] = x
AdvTerminated == a_pc \in {"done", "error"}
TrainerTerminated == t_pc \in {"done", "error"}
DiscDone == a_events # <<>> /\ a_events[Len(a_events)] = "d_step"

\* Batches the enumerate of the current run has yielded so far, and whether
\* the latest of them has not reached global_step += 1 yet.
AdvFetched == a_e * Len(data_iter) + a_pos
AdvUncounted ==
  IF a_pc = "gen" \/ (a_pc = "error" /\ a_where = "generator_loss") THEN 1 ELSE 0

\* C1: global_step equals the number of batches processed since the start of
\* the run, across epochs: it starts at 0, grows by one per processed batch
\* and is not reset when an epoch begins.  Trainer.train never completes a
\* batch (T_Batch), so its counter stays at its initial 0.
C1_GlobalStepCountsBatches ==
  /\ a_global_step = AdvFetched - AdvUncounted
  /\ t_global_step = 0

C1_Witness ==
  /\ a_pc = "disc"
  /\ a_e >= 1
  /\ a_global_step = Len(data_iter) + 1

\* C2: after a batch whose two checks have run, save was called with that
\* batch's global_step iff global_step % save_steps = 0 or the batch is the
\* last one of the run.
AdvChecksDone(g) == g < a_global_step \/ a_pc \notin {"disc", "save_check", "term_check"}
AdvFinalBatch(g) == AdvTerminated /\ g = a_global_step

C2_SaveIffDueOrFinal ==
  \A g \in 1..a_global_step :
    AdvChecksDone(g) =>
      (InSeq(g, a_saves) <=> (g % cfg.save_steps = 0 \/ AdvFinalBatch(g)))

C2_Witness ==
  /\ a_pc = "done"
  /\ \E g \in 1..a_global_step : ~InSeq(g, a_saves)
  /\ \E g \in 1..(a_global_step - 1) : InSeq(g, a_saves)

\* C3: with total_steps set, global_step never exceeds total_steps, and a run
\* that stops on the limit ends with a save named by the current global_step.
C3_NeverBeyondTotalSteps ==
  /\ cfg.total_steps # 0 => a_global_step <= cfg.total_steps
  /\ a_early => /\ AdvTerminated
                /\ a_saves # <<>>
                /\ a_saves[Len(a_saves)] = a_global_step

\* C4: no two save calls of a run use the same step, so no model_steps_<i>.pt
\* is written twice; only backbone.pt is overwritten.
C4_StepFileNeverOverwritten ==
  /\ \A j, k \in 1..Len(a_saves) : j # k => a_saves[j] # a_saves[k]
  /\ \A j, k \in 1..Len(a_written) :
       (j # k /\ a_written[j].path = a_written[k].path) => a_written[j].path = BackbonePath

\* C5: a processed batch runs the generator's zero_grad, loss, backward, step
\* and then the discriminator's zero_grad, loss, backward, step, in this order.
C5_SubStepOrder ==
  DiscDone =>
    a_events = <<"g_zero_grad", "generator_loss", "g_backward", "g_step",
                 "d_zero_grad", "discriminator_loss", "d_backward", "d_step">>

\* C6: after the discriminator sub-step the batch is the yielded batch with
\* field 3 replaced by the label, and the label at a position is 1 iff the
\* true id is the (first) maximum of the generator's logits there, else 0.
FirstMaxAt(l, v) ==
  /\ \A w \in DOMAIN l : l[w] <= l[v]
  /\ \A w \in DOMAIN l : w < v => l[w] < l[v]

C6_ReplacementLabels ==
  DiscDone =>
    LET orig == data_iter[a_i + 1] IN
    /\ DOMAIN a_batch = 1..7
    /\ \A k \in 1..7 : k # 4 => a_batch[k] = orig[k]
    /\ DOMAIN a_batch[4] = DOMAIN orig[4]
    /\ \A p \in DOMAIN orig[4] :
         a_batch[4][p] = IF FirstMaxAt(gen_logits[p], orig[4][p]) THEN 1 ELSE 0

C6_Witness ==
  /\ DiscDone
  /\ data_iter[a_i + 1][4][1] = 1
  /\ a_batch[4][1] = 1

\* C7: save and load of AdversarialTrainer never raise, and every checkpoint
\* holds the generator and the discriminator.
C7_AdvSavePersistsBoth ==
  /\ a_where \notin {"save", "load"}
  /\ a_saves # <<>> =>
       {"generator", "discriminator"} \subseteq
          {a_written[j].obj : j \in 1..Len(a_written)}

\* C8 as stated: from_json succeeds iff the keys are exactly the fields, and
\* then every field has the file's value.
C8_ExactKeysOnly ==
  load_status # "pending" =>
    /\ (load_status = "ok") <=> (DOMAIN file = Fields)
    /\ load_status = "ok" => \A f \in Fields : cfg[f] = file[f]

\* C8 amended: from_json succeeds iff every key is a field; a given field has
\* the file's value and a field that is not given has its default.
C8_SubsetKeysWithDefaults ==
  load_status # "pending" =>
    /\ (load_status = "ok") <=> (DOMAIN file \subseteq Fields)
    /\ (load_status = "TypeError") <=> (DOMAIN file \ Fields # {})
    /\ load_status = "ok" =>
         \A f \in Fields : cfg[f] = IF f \in DOMAIN file THEN file[f] ELSE Defaults[f]

C8_Witness ==
  /\ load_status = "ok"
  /\ "seed" \notin DOMAIN file
  /\ "n_epochs" \in DOMAIN file
  /\ cfg.seed = Defaults.seed
  /\ cfg.n_epochs = file["n_epochs"]

\* C9: the end-of-epoch report never fails, and a run that completes all its
\* epochs has reported once per epoch and ends with a save named by the
\* final global_step.
C9_EpochReportsThenFinalSave ==
  /\ a_where # "report"
  /\ t_where # "report"
  /\ (a_pc = "done" /\ ~a_early) =>
       /\ Len(a_reports) = cfg.n_epochs
       /\ a_saves # <<>>
       /\ a_saves[Len(a_saves)] = a_global_step

\* C10: on the same cfg and data both trainers make the same save calls in
\* the same order and end at the same point with the same global_step.
C10_SameCheckpointEvents ==
  (AdvTerminated /\ TrainerTerminated) =>
    /\ a_saves = t_saves
    /\ a_global_step = t_global_step
    /\ a_pc = t_pc

====
